---- MODULE Spec2Model ----
(***************************************************************************)
(* Model of the Userstack client for Next.js (src/src/index.tsx):          *)
(* UserstackProvider with its identify / forget / track operations, the    *)
(* automatic pageview effect, the two pure helpers getJsonFromUrl and      *)
(* formRouteString, the useUserstack accessor and the storage helper.      *)
(*                                                                         *)
(* JavaScript runs the code of one callback to its next await without      *)
(* interruption, so every action below is one such run: the synchronous    *)
(* part of a call, or the continuation after an awaited promise settles.   *)
(* The console-only log calls change no state and are left out.            *)
(***************************************************************************)
EXTENDS Integers, Sequences, FiniteSets, TLC

VARIABLES
    window,        \* TRUE iff typeof window !== 'undefined'
    props,         \* the provider's props: projectKey, customApiUrl
    localStorage,  \* window.localStorage: a function from keys to strings
    identifies,    \* the identify calls made so far, in invocation order
    tracks,        \* the track calls made so far, in invocation order
    nav,           \* the provider's navigation state and its effect runs
    accessor,      \* the outcome of the last useUserstack call
    hist,          \* history kept for the properties only: lastOk, the jwt
                   \* field of the 2xx identify response processed last, or
                   \* null if there is none since the last forget; forgot, whether forget has
                   \* returned and no identify call was made since ("quiet"
                   \* when no identify call was in flight at the forget);
                   \* forgotEmpty, whether the last such forget found the
                   \* slot already empty
    routeRun,      \* a run of formRouteString: its input and result
    queryRun       \* a run of getJsonFromUrl: its input and result

clientVars == <<window, props, localStorage, identifies, tracks,
                nav, accessor, hist>>
vars == <<window, props, localStorage, identifies, tracks,
          nav, accessor, hist, routeRun, queryRun>>

-----------------------------------------------------------------------------
(* Bounds of the model.                                                    *)

\* The calls of one behaviour: the identify calls, each counted with the
\* signin track call it can make, the track calls of the application and the
\* runs of the pageview effect, together.
MaxCalls == 4

-----------------------------------------------------------------------------
(* JavaScript values.                                                      *)

JsUndefined == [t |-> "undefined"]
JsNull == [t |-> "null"]
JsStr(s) == [t |-> "string", s |-> s]

\* ToBoolean, for the values the client tests: `if (jwt)`.
Truthy(v) == v.t = "string" /\ v.s # ""

\* ToString, as a template literal and Storage.setItem apply it.
ToStr(v) == IF v.t = "string" THEN v.s ELSE v.t

DEFAULT_API_URL == "https://userstack.app/api/edge"
JWT_STORAGE_KEY == "us-jwt"

-----------------------------------------------------------------------------
(* The storage helper.  Each operation does nothing when there is no       *)
(* window; get then returns undefined.                                     *)

storage_set(ls, key, value) ==
    IF window
    THEN [k \in DOMAIN ls \cup {key} |-> IF k = key THEN ToStr(value) ELSE ls[k]]
    ELSE ls

\* A variant of storage.get that keeps the first value a track call has read
\* and returns it from then on.
storage_get_Cached(ls, key) ==
    IF tracks # <<>> THEN tracks[1].jwt
    ELSE IF window
    THEN IF key \in DOMAIN ls THEN JsStr(ls[key]) ELSE JsNull
    ELSE JsUndefined

storage_get(ls, key) ==
    IF window
    THEN IF key \in DOMAIN ls THEN JsStr(ls[key]) ELSE JsNull
    ELSE JsUndefined

\* A variant of storage.delete that removes nothing.
storage_delete_Nothing(ls, key) == ls

storage_delete(ls, key) ==
    IF window
    THEN [k \in DOMAIN ls \ {key} |-> ls[k]]
    ELSE ls

-----------------------------------------------------------------------------
(* formRouteString.  A path, a route-parameter name and a resolved value   *)
(* are sequences of one-character strings, so that a value can be searched *)
(* for as a substring.  params is null or an object, given by its entries  *)
(* in Object.keys order; a value is a string or, for a catch-all segment,  *)
(* an array of strings.                                                    *)

RECURSIVE JoinComma(_)
JoinComma(items) ==
    IF Len(items) = 0 THEN <<>>
    ELSE IF Len(items) = 1 THEN items[1]
    ELSE items[1] \o <<",">> \o JoinComma(Tail(items))

\* `${params[key]}`: a string as it is, an array joined by commas.
TemplateChars(v) == IF v.t = "array" THEN JoinComma(v.items) ELSE v.chars

\* `[${key}]`
Placeholder(key) == <<"[">> \o key \o <<"]">>

MatchesAt(str, pattern, i) ==
    /\ i + Len(pattern) - 1 <= Len(str)
    /\ SubSeq(str, i, i + Len(pattern) - 1) = pattern

\* The position of the leftmost match of pattern in str at or after i, or 0.
RECURSIVE IndexFrom(_, _, _)
IndexFrom(str, pattern, i) ==
    IF i + Len(pattern) - 1 > Len(str) THEN 0
    ELSE IF MatchesAt(str, pattern, i) THEN i
    ELSE IndexFrom(str, pattern, i + 1)

\* String.prototype.replace with a string pattern: only the leftmost match is
\* replaced.  (A replacement holding a '$' pattern is outside the model: no
\* route-parameter name of the model has a '$'.)
\* A variant of replace that replaces every match, as replaceAll does.
RECURSIVE replace_Every(_, _, _)
replace_Every(str, pattern, replacement) ==
    LET i == IndexFrom(str, pattern, 1) IN
    IF i = 0 \/ Len(pattern) = 0 THEN str
    ELSE SubSeq(str, 1, i - 1) \o replacement
         \o replace_Every(SubSeq(str, i + Len(pattern), Len(str)),
                          pattern, replacement)

replace(str, pattern, replacement) ==
    LET i == IndexFrom(str, pattern, 1) IN
    IF i = 0 THEN str
    ELSE SubSeq(str, 1, i - 1) \o replacement
         \o SubSeq(str, i + Len(pattern), Len(str))

\* newPath after the first k keys of the forEach.
RECURSIVE formRouteUpTo(_, _, _)
formRouteUpTo(path, entries, k) ==
    IF k = 0 THEN path
    ELSE replace(formRouteUpTo(path, entries, k - 1),
                 TemplateChars(entries[k].value),
                 Placeholder(entries[k].key))

formRouteString(path, params) ==
    IF params.t = "null" THEN path
    ELSE formRouteUpTo(path, params.entries, Len(params.entries))

-----------------------------------------------------------------------------
(* getJsonFromUrl.  A query string is a sequence of tokens: the separators *)
(* "&" and "=", and pieces of text that hold no separator.                 *)

\* application/x-www-form-urlencoded decoding of a piece of text: '+' is a
\* space (the texts of the model hold no '%' escape).
Decode(tok) == IF tok = "+" THEN " " ELSE tok

\* application/x-www-form-urlencoded encoding, its inverse on these texts.
Encode(text) == IF text = " " THEN "+" ELSE text

RECURSIVE Concat(_)
Concat(toks) ==
    IF Len(toks) = 0 THEN "" ELSE Decode(Head(toks)) \o Concat(Tail(toks))

RECURSIVE FirstIndex(_, _, _)
FirstIndex(toks, sep, i) ==
    IF i > Len(toks) THEN 0
    ELSE IF toks[i] = sep THEN i
    ELSE FirstIndex(toks, sep, i + 1)

RECURSIVE SplitAmp(_)
SplitAmp(toks) ==
    LET i == FirstIndex(toks, "&", 1) IN
    IF i = 0 THEN <<toks>>
    ELSE <<SubSeq(toks, 1, i - 1)>> \o SplitAmp(SubSeq(toks, i + 1, Len(toks)))

\* One name=value segment: split at the first "=", a segment without one is
\* a name with the empty value.
ParsePair(seg) ==
    LET i == FirstIndex(seg, "=", 1) IN
    IF i = 0 THEN [key |-> Concat(seg), value |-> ""]
    ELSE [key |-> Concat(SubSeq(seg, 1, i - 1)),
          value |-> Concat(SubSeq(seg, i + 1, Len(seg)))]

RECURSIVE ParseSegments(_)
ParseSegments(segs) ==
    IF Len(segs) = 0 THEN <<>>
    ELSE IF Len(Head(segs)) = 0 THEN ParseSegments(Tail(segs))
    ELSE <<ParsePair(Head(segs))>> \o ParseSegments(Tail(segs))

\* new URLSearchParams(url): a leading '?' is dropped, empty segments are
\* skipped, the pairs keep their order.
URLSearchParams(url) ==
    LET body == IF Len(url) > 0 /\ url[1] = "?" THEN Tail(url) ELSE url
    IN ParseSegments(SplitAmp(body))

\* URLSearchParams.prototype.toString of a list of pairs.
RECURSIVE SearchParamsToString(_)
SearchParamsToString(pairs) ==
    IF Len(pairs) = 0 THEN <<>>
    ELSE LET p == Head(pairs)
             one == (IF p.key = "" THEN <<>> ELSE <<Encode(p.key)>>) \o <<"=">>
                    \o (IF p.value = "" THEN <<>> ELSE <<Encode(p.value)>>)
         IN IF Len(pairs) = 1 THEN one
            ELSE one \o <<"&">> \o SearchParamsToString(Tail(pairs))

JsArray(items) == [t |-> "array", items |-> items]

\* jsonObj = {}: its own properties, and whether the forEach has thrown.
EmptyObject == [threw |-> FALSE, own |-> <<>>]

\* One call of the forEach callback.  jsonObj.hasOwnProperty is looked up on
\* the object itself: once the query has set an own property of that name
\* the lookup finds a string, and calling it throws a TypeError.  Assigning a
\* string to jsonObj['__proto__'] runs the inherited setter, which ignores
\* it and creates no own property.
forEachCallback(jsonObj, key, value) ==
    IF jsonObj.threw THEN jsonObj
    ELSE IF "hasOwnProperty" \in DOMAIN jsonObj.own
    THEN [jsonObj EXCEPT !.threw = TRUE]
    ELSE IF key \in DOMAIN jsonObj.own
    THEN LET old == jsonObj.own[key]
             arr == IF old.t = "array" THEN old ELSE JsArray(<<old.s>>)
         IN [jsonObj EXCEPT !.own[key] = JsArray(Append(arr.items, value))]
    ELSE IF key = "__proto__" THEN jsonObj
    ELSE [jsonObj EXCEPT !.own =
            [k \in DOMAIN jsonObj.own \cup {key} |->
                IF k = key THEN JsStr(value) ELSE jsonObj.own[k]]]

RECURSIVE forEachFrom(_, _, _)
forEachFrom(jsonObj, pairs, i) ==
    IF i > Len(pairs) THEN jsonObj
    ELSE forEachFrom(forEachCallback(jsonObj, pairs[i].key, pairs[i].value),
                     pairs, i + 1)

\* The object returned, or threw = TRUE when the call throws.
getJsonFromUrl(url) == forEachFrom(EmptyObject, URLSearchParams(url), 1)

-----------------------------------------------------------------------------
(* The inputs of the client model.                                         *)

ProjectKeys == {"pk_live", "pk_test"}
ApiUrls == {DEFAULT_API_URL, "https://example.test/edge"}

\* The argument of an identify call; JSON.stringify keeps the fields given.
Credentials == {[userId |-> "u1"]}

\* What the identify endpoint can answer.  A 2xx body is a JSON object
\* whose jwt field is a string, possibly empty, or is missing (undefined);
\* a 2xx body that does not parse makes response.json() reject; a non-2xx
\* answer has a body text; the fetch itself rejects on a network failure.
JwtValues == {JsStr("J1"), JsStr("J2"), JsStr(""), JsUndefined}
ErrorTexts == {"invalid credentials", ""}
IdentifyResponses ==
    {[ok |-> TRUE, kind |-> "json", jwt |-> j, text |-> ""] : j \in JwtValues}
    \cup {[ok |-> TRUE, kind |-> "badjson", jwt |-> JsUndefined, text |-> ""]}
    \cup {[ok |-> FALSE, kind |-> "text", jwt |-> JsUndefined, text |-> t] :
            t \in ErrorTexts}
NoResponse == [ok |-> FALSE, kind |-> "none", jwt |-> JsUndefined, text |-> ""]

\* What localStorage holds when the page loads: nothing, or the token an
\* earlier page load has stored.
StoredAtLoad == {<<>>, [k \in {JWT_STORAGE_KEY} |-> "J0"]}

\* How a track request can end: any response resolves the fetch, whatever
\* its status; a network failure rejects it.
TrackOutcomes == {"response", "networkError"}

\* The track calls the application makes.
AppEvents == {[feature |-> "checkout", event |-> JsUndefined]}

\* The navigation locations: usePathname, useParams, useSearchParams.
\* '/u/7' under the route /u/[id] with the query a=1&a=2, where the provider
\* mounts, and '/' with the query hasOwnProperty=1&a=2.
FirstLocation ==
    [pathname |-> <<"/", "u", "/", "7">>,
      params |-> [t |-> "object",
                  entries |-> <<[key |-> <<"i", "d">>,
                                 value |-> [t |-> "string", chars |-> <<"7">>]]>>],
      searchParams |-> <<[key |-> "a", value |-> "1"], [key |-> "a", value |-> "2"]>>]

Locations ==
    {FirstLocation,
     [pathname |-> <<"/">>,
      params |-> [t |-> "null"],
      searchParams |-> <<[key |-> "hasOwnProperty", value |-> "1"],
                         [key |-> "a", value |-> "2"]>>]}

-----------------------------------------------------------------------------
(* The requests.                                                           *)

\* A variant of IdentifyRequest that sends one fixed project key.
IdentifyRequest_FixedKey(args, i) ==
    [url |-> props.customApiUrl \o "/identify",
     method |-> "POST",
     contentType |-> "application/json",
     projectKey |-> "pk_live",
     authorization |-> JsUndefined,
     body |-> args,
     call |-> <<"identify", i>>]

IdentifyRequest(args, i) ==
    [url |-> props.customApiUrl \o "/identify",
     method |-> "POST",
     contentType |-> "application/json",
     projectKey |-> props.projectKey,
     authorization |-> JsUndefined,
     body |-> args,
     call |-> <<"identify", i>>]

\* A variant of TrackRequest that sends the token without the 'Bearer ' scheme.
TrackRequest_BareToken(jwt, feature, event, data, t) ==
    [url |-> props.customApiUrl \o "/track",
     method |-> "POST",
     contentType |-> "application/json",
     projectKey |-> props.projectKey,
     authorization |-> JsStr(ToStr(jwt)),
     body |-> [feature |-> feature, event |-> event, data |-> data],
     call |-> <<"track", t>>]

TrackRequest(jwt, feature, event, data, t) ==
    [url |-> props.customApiUrl \o "/track",
     method |-> "POST",
     contentType |-> "application/json",
     projectKey |-> props.projectKey,
     authorization |-> JsStr("Bearer " \o ToStr(jwt)),
     body |-> [feature |-> feature, event |-> event, data |-> data],
     call |-> <<"track", t>>]

\* Every request sent so far; each call keeps the requests it has sent.
Requests ==
    {identifies[i].sent[1] : i \in DOMAIN identifies}
    \cup {tracks[t].sent[1] : t \in {u \in DOMAIN tracks : tracks[u].sent # <<>>}}

-----------------------------------------------------------------------------
(* track, up to its await: the token is read from storage and, when it is  *)
(* truthy, the request is sent and the call waits for the response;        *)
(* without one the call ends at once.  ls is the storage at the call.      *)

\* A variant of TrackSends without the test of the token.
TrackSends_Always(jwt) == TRUE

TrackSends(jwt) == Truthy(jwt)

\* Who calls track: the application, the pageview effect, or identify call i
\* for its signin event.
ByApp == [by |-> "app", identify |-> 0]
ByEffect == [by |-> "effect", identify |-> 0]
Signin(i) == [by |-> "identify", identify |-> i]

\* A variant of track that sends its request only when no other track
\* request is in flight, and otherwise waits.
track_OneAtATime(ls, feature, event, data, origin) ==
    LET jwt == storage_get(ls, JWT_STORAGE_KEY)
        t == Len(tracks) + 1
        free == \A u \in DOMAIN tracks : tracks[u].pc # "await_fetch"
    IN /\ tracks' = Append(tracks,
            [feature |-> feature, event |-> event, data |-> data,
             origin |-> origin, jwt |-> jwt,
             pc |-> IF TrackSends(jwt) THEN "await_fetch" ELSE "resolved",
             sent |-> IF TrackSends(jwt) /\ free
                      THEN <<TrackRequest(jwt, feature, event, data, t)>>
                      ELSE <<>>])

track(ls, feature, event, data, origin) ==
    LET jwt == storage_get(ls, JWT_STORAGE_KEY)
        t == Len(tracks) + 1
    IN /\ tracks' = Append(tracks,
            [feature |-> feature, event |-> event, data |-> data,
             origin |-> origin, jwt |-> jwt,
             pc |-> IF TrackSends(jwt) THEN "await_fetch" ELSE "resolved",
             sent |-> IF TrackSends(jwt)
                      THEN <<TrackRequest(jwt, feature, event, data, t)>>
                      ELSE <<>>])

AppTracks == {t \in DOMAIN tracks : tracks[t].origin = ByApp}

\* The calls made so far that count towards MaxCalls.
Calls == 2 * Len(identifies) + Cardinality(AppTracks) + Len(nav.runs)

\* The application calls track(feature, event).
Track(e) ==
    /\ Calls < MaxCalls
    /\ hist' = hist
    /\ track(localStorage, e.feature, e.event, JsUndefined, ByApp)
    /\ UNCHANGED <<window, props, localStorage, identifies, nav, accessor,
                   routeRun, queryRun>>

\* A variant of TrackSettle that sends the request once more after a network
\* error.
TrackSettle_Retry(t, outcome) ==
    /\ t \in DOMAIN tracks
    /\ tracks[t].pc = "await_fetch"
    /\ tracks' = IF outcome = "networkError" /\ Len(tracks[t].sent) = 1
                 THEN [tracks EXCEPT ![t].sent = Append(@, @[1])]
                 ELSE [tracks EXCEPT ![t].pc =
                         IF outcome = "networkError" THEN "rejected" ELSE "resolved"]
    /\ UNCHANGED <<window, props, localStorage, identifies, nav,
                   accessor, hist, routeRun, queryRun>>

\* The fetch of track call t settles: the call resolves, or rejects with the
\* network error, which nothing handles.
TrackSettle(t, outcome) ==
    /\ t \in DOMAIN tracks
    /\ tracks[t].pc = "await_fetch"
    /\ tracks' = [tracks EXCEPT ![t].pc =
                    IF outcome = "networkError" THEN "rejected" ELSE "resolved"]
    /\ UNCHANGED <<window, props, localStorage, identifies, nav,
                   accessor, hist, routeRun, queryRun>>

-----------------------------------------------------------------------------
(* identify.  The call runs to `await fetch(...)`, which sends the         *)
(* request.  When the fetch resolves the call only tests response.ok and   *)
(* awaits the body, which changes nothing another call can see, so the     *)
(* arrival of the response and of its body are one step here.              *)

Identify(args) ==
    /\ Calls + 2 <= MaxCalls
    /\ identifies' = Append(identifies,
            [args |-> args, pc |-> "await_fetch", response |-> NoResponse,
             error |-> JsUndefined,
             sent |-> <<IdentifyRequest(args, Len(identifies) + 1)>>])
    /\ hist' = [hist EXCEPT !.forgot = "no", !.forgotEmpty = FALSE]
    /\ UNCHANGED <<window, props, localStorage, tracks, nav, accessor,
                   routeRun, queryRun>>

\* The fetch rejects (a network failure): identify rejects with that error.
IdentifyFetchFails(i) ==
    /\ i \in DOMAIN identifies
    /\ identifies[i].pc = "await_fetch"
    /\ identifies' = [identifies EXCEPT ![i].pc = "rejected",
                                        ![i].error = JsStr("Failed to fetch")]
    /\ UNCHANGED <<window, props, localStorage, tracks, nav,
                   accessor, hist, routeRun, queryRun>>

\* A variant of IdentifyOk that calls track before it stores the jwt.
IdentifyOk_TrackFirst(i, resp) ==
    /\ i \in DOMAIN identifies
    /\ identifies[i].pc = "await_fetch"
    /\ resp.ok
    /\ resp.kind = "json"
    /\ hist' = [hist EXCEPT !.lastOk = resp.jwt]
    /\ track(localStorage, "app", JsStr("signin"), JsUndefined, Signin(i))
    /\ localStorage' = storage_set(localStorage, JWT_STORAGE_KEY, resp.jwt)
    /\ identifies' = [identifies EXCEPT ![i].pc = "resolved",
                                        ![i].response = resp]
    /\ UNCHANGED <<window, props, nav, accessor, routeRun, queryRun>>

\* A variant of IdentifyOk that awaits the signin track call: identify stays
\* pending after the call.
IdentifyOk_AwaitsTrack(i, resp) ==
    /\ i \in DOMAIN identifies
    /\ identifies[i].pc = "await_fetch"
    /\ resp.ok
    /\ resp.kind = "json"
    /\ localStorage' = storage_set(localStorage, JWT_STORAGE_KEY, resp.jwt)
    /\ hist' = [hist EXCEPT !.lastOk = resp.jwt]
    /\ track(localStorage', "app", JsStr("signin"), JsUndefined, Signin(i))
    /\ identifies' = [identifies EXCEPT ![i].pc = "await_track",
                                        ![i].response = resp]
    /\ UNCHANGED <<window, props, nav, accessor, routeRun, queryRun>>

\* response.ok and the body parsed: the jwt is stored and track('app',
\* 'signin') is called, which is not awaited; identify resolves.
IdentifyOk(i, resp) ==
    /\ i \in DOMAIN identifies
    /\ identifies[i].pc = "await_fetch"
    /\ resp.ok
    /\ resp.kind = "json"
    /\ localStorage' = storage_set(localStorage, JWT_STORAGE_KEY, resp.jwt)
    /\ hist' = [hist EXCEPT !.lastOk = resp.jwt]
    /\ track(localStorage', "app", JsStr("signin"), JsUndefined, Signin(i))
    /\ identifies' = [identifies EXCEPT ![i].pc = "resolved",
                                        ![i].response = resp]
    /\ UNCHANGED <<window, props, nav, accessor, routeRun, queryRun>>

\* response.ok and response.json() rejects: identify rejects with its error.
IdentifyBadJson(i, resp) ==
    /\ i \in DOMAIN identifies
    /\ identifies[i].pc = "await_fetch"
    /\ resp.ok
    /\ resp.kind = "badjson"
    /\ identifies' = [identifies EXCEPT ![i].pc = "rejected",
                                        ![i].response = resp,
                                        ![i].error = JsStr("SyntaxError")]
    /\ UNCHANGED <<window, props, localStorage, tracks, nav,
                   accessor, hist, routeRun, queryRun>>

\* A variant of FailureMessage that drops the response text.
FailureMessage_Fixed(responseText) == JsStr("Failed to identify user")

\* The message of the error a non-2xx answer is turned into.
FailureMessage(responseText) == JsStr(responseText)

\* Not response.ok: the body text is read and thrown as an Error.
IdentifyFail(i, resp) ==
    /\ i \in DOMAIN identifies
    /\ identifies[i].pc = "await_fetch"
    /\ ~resp.ok
    /\ identifies' = [identifies EXCEPT
            ![i].pc = "rejected",
            ![i].response = resp,
            ![i].error = FailureMessage(resp.text)]
    /\ UNCHANGED <<window, props, localStorage, tracks, nav,
                   accessor, hist, routeRun, queryRun>>

-----------------------------------------------------------------------------
(* forget.                                                                 *)

InFlight == {i \in DOMAIN identifies : identifies[i].pc = "await_fetch"}

\* A variant of Forget that blanks the token instead of removing it.
Forget_Blank ==
    /\ localStorage' = storage_set(localStorage, JWT_STORAGE_KEY, JsStr(""))
    /\ hist' = [lastOk |-> JsNull,
                forgot |-> IF InFlight = {} THEN "quiet" ELSE "yes",
                forgotEmpty |-> JWT_STORAGE_KEY \notin DOMAIN localStorage]
    /\ UNCHANGED <<window, props, identifies, tracks, nav, accessor,
                   routeRun, queryRun>>

Forget ==
    /\ localStorage' = storage_delete(localStorage, JWT_STORAGE_KEY)
    /\ hist' = [lastOk |-> JsNull,
                forgot |-> IF InFlight = {} THEN "quiet" ELSE "yes",
                forgotEmpty |-> JWT_STORAGE_KEY \notin DOMAIN localStorage]
    /\ UNCHANGED <<window, props, identifies, tracks, nav, accessor,
                   routeRun, queryRun>>

-----------------------------------------------------------------------------
(* The pageview effect: it runs once after the provider has mounted and    *)
(* once after every change of pathname, params or searchParams.            *)

\* The body of the effect for location loc.  When getJsonFromUrl throws,
\* the effect throws before track is called.
PageviewEffect(loc) ==
    LET jsonParams == getJsonFromUrl(SearchParamsToString(loc.searchParams))
        data == [path |-> loc.pathname,
                 params |-> loc.params,
                 searchParams |-> jsonParams.own,
                 route |-> formRouteString(loc.pathname, loc.params)]
    IN /\ hist' = hist
       /\ IF jsonParams.threw
          THEN /\ nav' = [nav EXCEPT !.mounted = TRUE, !.location = loc,
                            !.runs = Append(@, [location |-> loc, track |-> 0])]
               /\ UNCHANGED tracks
          ELSE /\ nav' = [nav EXCEPT !.mounted = TRUE, !.location = loc,
                            !.runs = Append(@, [location |-> loc,
                                                track |-> Len(tracks) + 1])]
               /\ track(localStorage, "app", JsStr("pageview"), data, ByEffect)

Mount ==
    /\ ~nav.mounted
    /\ Calls < MaxCalls
    /\ PageviewEffect(nav.location)
    /\ UNCHANGED <<window, props, localStorage, identifies, accessor,
                   routeRun, queryRun>>

Navigate(loc) ==
    /\ nav.mounted
    /\ loc # nav.location
    /\ Calls < MaxCalls
    /\ PageviewEffect(loc)
    /\ UNCHANGED <<window, props, localStorage, identifies, accessor,
                   routeRun, queryRun>>

-----------------------------------------------------------------------------
(* The accessor.  The context is created with the default value            *)
(* `{} as UserstackContextType`, which useContext returns when no provider *)
(* encloses the caller.                                                    *)

ContextDefault == [t |-> "object", keys |-> {}]
ProviderValue == [t |-> "object", keys |-> {"identify", "forget", "track"}]

useContext(insideProvider) ==
    IF insideProvider THEN ProviderValue ELSE ContextDefault

useUserstack(insideProvider) ==
    LET context == useContext(insideProvider) IN
    IF context = JsUndefined
    THEN [threw |-> TRUE, value |-> JsUndefined]
    ELSE [threw |-> FALSE, value |-> context]

NotCalled == [called |-> FALSE, insideProvider |-> FALSE, threw |-> FALSE,
              value |-> JsUndefined]

UseUserstack(insideProvider) ==
    /\ accessor' = [called |-> TRUE, insideProvider |-> insideProvider,
                    threw |-> useUserstack(insideProvider).threw,
                    value |-> useUserstack(insideProvider).value]
    /\ UNCHANGED <<window, props, localStorage, identifies, tracks,
                   nav, hist, routeRun, queryRun>>

-----------------------------------------------------------------------------
(* The client: the state after the provider's first render, and its steps. *)

NoRun == [done |-> FALSE]

InitClient ==
    /\ window \in BOOLEAN
    /\ props \in [projectKey : ProjectKeys, customApiUrl : ApiUrls]
    /\ localStorage \in StoredAtLoad
    /\ ~window => localStorage = <<>>
    /\ identifies = <<>>
    /\ tracks = <<>>
    /\ nav = [mounted |-> FALSE, location |-> FirstLocation, runs |-> <<>>]
    /\ accessor = NotCalled
    /\ hist = [lastOk |-> JsNull, forgot |-> "no", forgotEmpty |-> FALSE]

\* One of the client's initial states, for the runs of the pure helpers.
ClientAtRest ==
    /\ InitClient
    /\ window
    /\ props = [projectKey |-> "pk_live", customApiUrl |-> DEFAULT_API_URL]
    /\ localStorage = <<>>

Init ==
    /\ InitClient
    /\ routeRun = NoRun
    /\ queryRun = NoRun

Next ==
    \/ \E args \in Credentials : Identify(args)
    \/ \E i \in DOMAIN identifies : IdentifyFetchFails(i)
    \/ \E i \in DOMAIN identifies, resp \in IdentifyResponses : IdentifyOk(i, resp)
    \/ \E i \in DOMAIN identifies, resp \in IdentifyResponses : IdentifyBadJson(i, resp)
    \/ \E i \in DOMAIN identifies, resp \in IdentifyResponses : IdentifyFail(i, resp)
    \/ Forget
    \/ \E e \in AppEvents : Track(e)
    \/ \E t \in DOMAIN tracks, o \in TrackOutcomes : TrackSettle(t, o)
    \/ Mount
    \/ \E loc \in Locations : Navigate(loc)

Spec == Init /\ [][Next]_vars

\* The client while no identify call is made: the components render, call
\* the accessor and track, and the location changes.
NextRender ==
    \/ \E inside \in BOOLEAN : UseUserstack(inside)
    \/ Forget
    \/ \E e \in AppEvents : Track(e)
    \/ \E t \in DOMAIN tracks, o \in TrackOutcomes : TrackSettle(t, o)
    \/ Mount
    \/ \E loc \in Locations : Navigate(loc)

SpecRender == Init /\ [][NextRender]_vars

-----------------------------------------------------------------------------
(* Runs of formRouteString on the paths and params of the bounds.          *)

MaxPathLen == 4
PathAlphabet == {"/", "1", "a"}
Paths == UNION {[1..n -> PathAlphabet] : n \in 0..MaxPathLen}

ParamKeys == {<<"a">>, <<"b">>}
ParamValues == {[t |-> "string", chars |-> <<"1">>],
                [t |-> "string", chars |-> <<"a">>],
                [t |-> "string", chars |-> <<"1", "1">>],
                [t |-> "array", items |-> <<<<"1">>, <<"a">>>>]}
ParamEntries == [key : ParamKeys, value : ParamValues]
ParamObjects ==
    {[t |-> "null"], [t |-> "object", entries |-> <<>>]}
    \cup {[t |-> "object", entries |-> <<e>>] : e \in ParamEntries}
    \cup {[t |-> "object", entries |-> <<e, f>>] :
            <<e, f>> \in {p \in ParamEntries \X ParamEntries : p[1].key # p[2].key}}

\* '/users/42/posts/7' with {userId: '42', postId: '7'}
ExamplePath == <<"/", "u", "s", "e", "r", "s", "/", "4", "2",
                 "/", "p", "o", "s", "t", "s", "/", "7">>
ExampleParams ==
    [t |-> "object",
     entries |-> <<[key |-> <<"u", "s", "e", "r", "I", "d">>,
                    value |-> [t |-> "string", chars |-> <<"4", "2">>]],
                   [key |-> <<"p", "o", "s", "t", "I", "d">>,
                    value |-> [t |-> "string", chars |-> <<"7">>]]>>]

RouteInputs ==
    {[path |-> p, params |-> q] : p \in Paths, q \in ParamObjects}
    \cup {[path |-> ExamplePath, params |-> ExampleParams]}

InitRoute ==
    /\ ClientAtRest
    /\ routeRun \in {[done |-> FALSE, path |-> in.path, params |-> in.params,
                      result |-> <<>>] : in \in RouteInputs}
    /\ queryRun = NoRun

RouteApply ==
    /\ ~routeRun.done
    /\ routeRun' = [routeRun EXCEPT !.done = TRUE,
                        !.result = formRouteString(routeRun.path, routeRun.params)]
    /\ UNCHANGED <<clientVars, queryRun>>

NextRoute == RouteApply

SpecRoute == InitRoute /\ [][NextRoute]_vars

-----------------------------------------------------------------------------
(* Runs of getJsonFromUrl on the query strings of the bounds: the strings  *)
(* useSearchParams().toString() gives for up to MaxPairs name=value pairs. *)

MaxPairs == 3
QueryKeys == {"a", "b", "hasOwnProperty", "__proto__"}
QueryValues == {"1", "2", "3", " "}
QueryPairs == [key : QueryKeys, value : QueryValues]
PairLists == UNION {[1..n -> QueryPairs] : n \in 0..MaxPairs}

InitQuery ==
    /\ ClientAtRest
    /\ routeRun = NoRun
    /\ queryRun \in {[done |-> FALSE, pairs |-> ps,
                      url |-> SearchParamsToString(ps),
                      result |-> EmptyObject] : ps \in PairLists}

QueryApply ==
    /\ ~queryRun.done
    /\ queryRun' = [queryRun EXCEPT !.done = TRUE,
                        !.result = getJsonFromUrl(queryRun.url)]
    /\ UNCHANGED <<clientVars, routeRun>>

NextQuery == QueryApply

SpecQuery == InitQuery /\ [][NextQuery]_vars

-----------------------------------------------------------------------------
(* Properties of the session client, checked under Spec.                   *)

\* A step in which track is called: the call is the last of tracks'.
TrackCalled == Len(tracks') = Len(tracks) + 1
NewTrack == tracks'[Len(tracks')]

\* The call has sent a POST to {base}/track with Authorization 'Bearer <j>'.
SentWithBearer(call, j) ==
    /\ Len(call.sent) = 1
    /\ call.sent[1].method = "POST"
    /\ call.sent[1].url = props.customApiUrl \o "/track"
    /\ call.sent[1].authorization = JsStr("Bearer " \o j)

\* The call has sent nothing and has ended without an error.
Dropped(call) == call.sent = <<>> /\ call.pc = "resolved"

\* This step is identify call i processing its 2xx response with a jwt string.
IdentifySucceeds(i) ==
    /\ i \in DOMAIN identifies
    /\ identifies[i].pc = "await_fetch"
    /\ identifies'[i].pc = "resolved"
    /\ identifies'[i].response.jwt.t = "string"

\* C1, as claimed, read for a browser (window is defined): a track call made
\* after an identify has resolved on a 2xx response with jwt J, with no
\* forget and no other identify completing in between, sends a POST to
\* {base}/track with Authorization 'Bearer J'.
C1_Original ==
    [][(TrackCalled /\ NewTrack.origin \in {ByApp, ByEffect}
        /\ window /\ hist.lastOk.t = "string")
       => SentWithBearer(NewTrack, hist.lastOk.s)]_vars

\* C1, amended: the same, where J is not the empty string (and window is
\* defined).
C1_TrackAfterIdentify ==
    [][(TrackCalled /\ NewTrack.origin \in {ByApp, ByEffect}
        /\ hist.lastOk.t = "string" /\ window /\ hist.lastOk.s # "")
       => SentWithBearer(NewTrack, hist.lastOk.s)]_vars

\* An identify has resolved with J1 and the track call the application made
\* after it has sent its request with 'Bearer J1'.
C1_Witness ==
    /\ hist.lastOk = JsStr("J1")
    /\ \E i \in DOMAIN identifies :
          identifies[i].pc = "resolved" /\ identifies[i].response.jwt = JsStr("J1")
    /\ Len(tracks) > 0
    /\ tracks[Len(tracks)].origin = ByApp
    /\ SentWithBearer(tracks[Len(tracks)], "J1")

\* C2, as claimed: once forget has returned and as long as no identify call
\* is made after it, every track call sends nothing and does not fail.
C2_Original ==
    [][(TrackCalled /\ hist'.forgot # "no") => Dropped(NewTrack)]_vars

\* C2, amended: once forget has returned while no identify call was in
\* flight, and as long as no identify call is made after it, every track
\* call sends nothing and does not fail.
C2_TrackAfterForget ==
    [][(TrackCalled /\ hist'.forgot = "quiet") => Dropped(NewTrack)]_vars

\* A token was stored, forget has removed it, and the track call made after
\* the forget was dropped.
C2_Witness ==
    /\ hist.forgot = "quiet"
    /\ \E t \in DOMAIN tracks : Truthy(tracks[t].jwt)
    /\ Len(tracks) > 1
    /\ tracks[Len(tracks)].origin = ByApp
    /\ tracks[Len(tracks)].jwt = JsNull
    /\ Dropped(tracks[Len(tracks)])

\* This step is identify call i processing a non-2xx response.
IdentifyRefused(i) ==
    /\ i \in DOMAIN identifies
    /\ identifies[i].pc = "await_fetch"
    /\ identifies'[i].pc = "rejected"
    /\ identifies'[i].response.kind = "text"

\* C3: an identify call answered with a non-2xx status and body text T
\* rejects with an error whose message is T; that step stores no token (the
\* slot keeps what it held), calls no track and sends no further request,
\* and the call never has a signin track call or a second request.
C3_IdentifyRefused ==
    /\ [][\A i \in DOMAIN identifies : IdentifyRefused(i) =>
            /\ identifies'[i].error = JsStr(identifies'[i].response.text)
            /\ localStorage' = localStorage
            /\ tracks' = tracks
            /\ identifies'[i].sent = identifies[i].sent]_vars
    /\ [](\A i \in DOMAIN identifies :
            (identifies[i].pc = "rejected" /\ identifies[i].response.kind = "text")
            => /\ Len(identifies[i].sent) = 1
               /\ \A t \in DOMAIN tracks : tracks[t].origin # Signin(i))

\* An identify call was refused with 'invalid credentials' while a token was
\* stored, and the token is still there.
C3_Witness ==
    /\ \E i \in DOMAIN identifies :
          /\ identifies[i].pc = "rejected"
          /\ identifies[i].error = JsStr("invalid credentials")
    /\ JWT_STORAGE_KEY \in DOMAIN localStorage

\* C4: a track call made while the token slot is empty sends no request,
\* ends without an error, and is never sent later: no request of the client
\* is ever that call's.
C4_DroppedWithoutToken ==
    \A t \in DOMAIN tracks :
        tracks[t].jwt \in {JsNull, JsUndefined}
        => /\ Dropped(tracks[t])
           /\ \A r \in Requests : r.call # <<"track", t>>

\* A track call was dropped, then an identify succeeded and its signin event
\* was sent: the dropped call still has no request.
C4_Witness ==
    \E t \in DOMAIN tracks, u \in DOMAIN tracks :
        /\ t < u
        /\ tracks[t].origin = ByApp
        /\ tracks[t].jwt = JsNull
        /\ tracks[t].sent = <<>>
        /\ tracks[u].origin.by = "identify"
        /\ Len(tracks[u].sent) = 1

\* The one track call of this step is the signin event.
SigninCalled(i) ==
    /\ TrackCalled
    /\ NewTrack.feature = "app"
    /\ NewTrack.event = JsStr("signin")
    /\ NewTrack.origin = Signin(i)

\* C5, as claimed, read for a browser (window is defined): an identify call
\* that gets a 2xx response with jwt J stores J and then calls
\* track('app', 'signin') once, and that event is sent to {base}/track with
\* Authorization 'Bearer J'.
C5_Original ==
    [][\A i \in DOMAIN identifies : (IdentifySucceeds(i) /\ window) =>
            /\ storage_get(localStorage', JWT_STORAGE_KEY)
                  = identifies'[i].response.jwt
            /\ SigninCalled(i)
            /\ SentWithBearer(NewTrack, identifies'[i].response.jwt.s)]_vars

\* C5, amended: an identify call that gets a 2xx response with jwt J calls
\* track('app', 'signin') once; where window is defined J is stored first,
\* and if moreover J is not the empty string the event is sent to
\* {base}/track with Authorization 'Bearer J'; otherwise it is dropped.
C5_IdentifySignsIn ==
    [][\A i \in DOMAIN identifies : IdentifySucceeds(i) =>
            LET J == identifies'[i].response.jwt IN
            /\ SigninCalled(i)
            /\ window => storage_get(localStorage', JWT_STORAGE_KEY) = J
            /\ IF window /\ J.s # ""
               THEN SentWithBearer(NewTrack, J.s)
               ELSE Dropped(NewTrack)]_vars

\* An identify call resolved with J2 while another token was stored, and its
\* signin event went out with 'Bearer J2'.
C5_Witness ==
    \E i \in DOMAIN identifies, t \in DOMAIN tracks, u \in DOMAIN tracks :
        /\ identifies[i].pc = "resolved"
        /\ identifies[i].response.jwt = JsStr("J2")
        /\ tracks[t].origin = Signin(i)
        /\ SentWithBearer(tracks[t], "J2")
        /\ u < t
        /\ Truthy(tracks[u].jwt)
        /\ tracks[u].jwt # JsStr("J2")

-----------------------------------------------------------------------------
(* The accessor, checked under SpecRender.                                 *)

\* C6, as claimed: useUserstack called with no UserstackProvider around the
\* caller raises an error instead of returning an object.
C6_Original ==
    (accessor.called /\ ~accessor.insideProvider) => accessor.threw

-----------------------------------------------------------------------------
(* formRouteString, checked under SpecRoute.                               *)

\* The path with every match of pattern replaced, from left to right.
RECURSIVE EveryOccurrenceReplaced(_, _, _)
EveryOccurrenceReplaced(str, pattern, replacement) ==
    IF Len(str) < Len(pattern) \/ Len(str) = 0 THEN str
    ELSE IF SubSeq(str, 1, Len(pattern)) = pattern
    THEN replacement
         \o EveryOccurrenceReplaced(SubSeq(str, Len(pattern) + 1, Len(str)),
                                    pattern, replacement)
    ELSE <<Head(str)>> \o EveryOccurrenceReplaced(Tail(str), pattern, replacement)

RECURSIVE EveryValueReplaced(_, _, _)
EveryValueReplaced(path, entries, k) ==
    IF k = 0 THEN path
    ELSE EveryOccurrenceReplaced(EveryValueReplaced(path, entries, k - 1),
                                 TemplateChars(entries[k].value),
                                 Placeholder(entries[k].key))

\* '/users/[userId]/posts/[postId]'
ExampleRoute == <<"/", "u", "s", "e", "r", "s", "/",
                  "[", "u", "s", "e", "r", "I", "d", "]",
                  "/", "p", "o", "s", "t", "s", "/",
                  "[", "p", "o", "s", "t", "I", "d", "]">>

\* C7, as claimed: formRouteString returns the path with every occurrence
\* of each resolved value replaced by '[name]'.
C7_Original ==
    (routeRun.done /\ routeRun.params.t = "object")
    => routeRun.result = EveryValueReplaced(routeRun.path, routeRun.params.entries,
                                            Len(routeRun.params.entries))

OccursAt(str, pattern, i) ==
    /\ i >= 1
    /\ i + Len(pattern) - 1 <= Len(str)
    /\ \A n \in 1..Len(pattern) : str[i + n - 1] = pattern[n]

\* after is before with its leftmost occurrence of pattern, if there is
\* one, replaced by replacement, and nothing else changed.
FirstOccurrenceReplaced(before, pattern, replacement, after) ==
    IF \E i \in 1..Len(before) : OccursAt(before, pattern, i)
    THEN \E i \in 1..Len(before) :
            /\ OccursAt(before, pattern, i)
            /\ \A j \in 1..(i - 1) : ~OccursAt(before, pattern, j)
            /\ after = SubSeq(before, 1, i - 1) \o replacement
                       \o SubSeq(before, i + Len(pattern), Len(before))
    ELSE after = before

\* C7, amended: formRouteString takes the names in the order of the params
\* object and, for each, replaces only the leftmost occurrence of its
\* resolved value (an array value joined by commas) in the path as rewritten
\* so far by '[name]'; a value that does not occur changes nothing, and null
\* params give the path back.  '/users/42/posts/7' with {userId: '42',
\* postId: '7'} gives '/users/[userId]/posts/[postId]'.
C7_FirstOccurrenceOnly ==
    routeRun.done =>
        /\ routeRun.params.t = "null" => routeRun.result = routeRun.path
        /\ routeRun.params.t = "object" =>
            LET es == routeRun.params.entries IN
            /\ routeRun.result = formRouteUpTo(routeRun.path, es, Len(es))
            /\ \A k \in 1..Len(es) :
                  FirstOccurrenceReplaced(formRouteUpTo(routeRun.path, es, k - 1),
                                          TemplateChars(es[k].value),
                                          Placeholder(es[k].key),
                                          formRouteUpTo(routeRun.path, es, k))
        /\ (routeRun.path = ExamplePath /\ routeRun.params = ExampleParams)
            => routeRun.result = ExampleRoute

\* '/1/1' with {a: '1'} has become '/[a]/1': the second '1' is left.
C7_Witness ==
    /\ routeRun.done
    /\ routeRun.path = <<"/", "1", "/", "1">>
    /\ routeRun.params.t = "object"
    /\ Len(routeRun.params.entries) = 1
    /\ routeRun.params.entries[1].key = <<"a">>
    /\ TemplateChars(routeRun.params.entries[1].value) = <<"1">>
    /\ routeRun.result = <<"/", "[", "a", "]", "/", "1">>

-----------------------------------------------------------------------------
(* The pageview effect and concurrent track calls, checked under Spec.     *)

\* C8, as claimed: every run of the effect (at mount and at each change of
\* location) has called track('app', 'pageview', payload) for its location,
\* and that call has sent its request if and only if a token was stored.
C8_Original ==
    \A k \in DOMAIN nav.runs :
        LET run == nav.runs[k] IN
        /\ run.track \in DOMAIN tracks
        /\ tracks[run.track].origin = ByEffect
        /\ tracks[run.track].feature = "app"
        /\ tracks[run.track].event = JsStr("pageview")
        /\ tracks[run.track].data.path = run.location.pathname
        /\ Len(tracks[run.track].sent) = 1 <=> Truthy(tracks[run.track].jwt)

\* C9: every track call made while a token is stored has sent its own POST
\* to {base}/track in the step of the call, whatever track requests are
\* still in flight; and the end of one track request, with a response or a
\* failure, changes no other track call.
C9_IndependentTracks ==
    /\ [](\A t \in DOMAIN tracks :
            Truthy(tracks[t].jwt) =>
                /\ SentWithBearer(tracks[t], tracks[t].jwt.s)
                /\ tracks[t].sent[1].call = <<"track", t>>)
    /\ [][\A t \in DOMAIN tracks :
            (tracks[t].pc = "await_fetch" /\ tracks'[t].pc # "await_fetch")
            => /\ Len(tracks') = Len(tracks)
               /\ \A u \in DOMAIN tracks \ {t} : tracks'[u] = tracks[u]]_vars

\* Two track calls of the application had their requests in flight together,
\* and the first has failed while the second has its response.
C9_Witness ==
    \E t \in DOMAIN tracks, u \in DOMAIN tracks :
        /\ t < u
        /\ tracks[t].origin = ByApp
        /\ tracks[u].origin = ByApp
        /\ Len(tracks[t].sent) = 1
        /\ Len(tracks[u].sent) = 1
        /\ tracks[t].pc = "rejected"
        /\ tracks[u].pc = "resolved"

-----------------------------------------------------------------------------
(* getJsonFromUrl, checked under SpecQuery.                                *)

RECURSIVE ValuesOf(_, _)
ValuesOf(pairs, key) ==
    IF Len(pairs) = 0 THEN <<>>
    ELSE (IF Head(pairs).key = key THEN <<Head(pairs).value>> ELSE <<>>)
         \o ValuesOf(Tail(pairs), key)

\* The mapping the claim describes for a list of name=value pairs.
KeyToValues(pairs) ==
    [k \in {pairs[n].key : n \in DOMAIN pairs} |->
        IF Len(ValuesOf(pairs, k)) = 1
        THEN JsStr(ValuesOf(pairs, k)[1])
        ELSE JsArray(ValuesOf(pairs, k))]

\* C10, as claimed: for every query string getJsonFromUrl returns the object
\* that maps each key that appears once to its value and each key that
\* appears more than once to the list of its values in order of appearance.
C10_Original ==
    queryRun.done =>
        /\ ~queryRun.result.threw
        /\ queryRun.result.own = KeyToValues(queryRun.pairs)

-----------------------------------------------------------------------------
(* Requests, the token read and the project key, checked under Spec.       *)

\* C11: every identify call has sent exactly one POST to {base}/identify and
\* every track call (signin and pageview events too) at most one POST to
\* {base}/track, in every state; and no step adds a request to a call already
\* made, whatever the answer or failure of its request.
C11_NoRetry ==
    /\ [](/\ \A i \in DOMAIN identifies :
               /\ Len(identifies[i].sent) = 1
               /\ identifies[i].sent[1].method = "POST"
               /\ identifies[i].sent[1].url = props.customApiUrl \o "/identify"
          /\ \A t \in DOMAIN tracks :
               /\ Len(tracks[t].sent) <= 1
               /\ \A n \in DOMAIN tracks[t].sent :
                     /\ tracks[t].sent[n].method = "POST"
                     /\ tracks[t].sent[n].url = props.customApiUrl \o "/track")
    /\ [][/\ \A i \in DOMAIN identifies : identifies'[i].sent = identifies[i].sent
          /\ \A t \in DOMAIN tracks : tracks'[t].sent = tracks[t].sent]_vars

\* An identify call has failed on the network and a
\* track request has failed on the network: each call has its one request.
C11_Witness ==
    /\ \E i \in DOMAIN identifies :
          /\ identifies[i].pc = "rejected"
          /\ identifies[i].error = JsStr("Failed to fetch")
          /\ Len(identifies[i].sent) = 1
    /\ \E t \in DOMAIN tracks :
          /\ tracks[t].pc = "rejected"
          /\ Len(tracks[t].sent) = 1

\* C12: the request of a track call carries 'Bearer ' followed by the value
\* the token slot holds when track is invoked, and a call made while the slot
\* is empty sends nothing (the slot of the step's end is the slot at the
\* invocation: the application and the effect call track without touching
\* the slot, and identify calls it after it has stored the jwt); and no later
\* step, a forget or an identify among them, changes the token a call has
\* read or the request it has sent.
C12_TokenReadFresh ==
    /\ [][TrackCalled =>
            /\ NewTrack.sent # <<>> =>
                  /\ JWT_STORAGE_KEY \in DOMAIN localStorage'
                  /\ NewTrack.sent[1].authorization
                        = JsStr("Bearer " \o localStorage'[JWT_STORAGE_KEY])
            /\ JWT_STORAGE_KEY \notin DOMAIN localStorage' => NewTrack.sent = <<>>]_vars
    /\ [][\A t \in DOMAIN tracks :
            /\ tracks'[t].jwt = tracks[t].jwt
            /\ tracks'[t].sent = tracks[t].sent]_vars

\* A track request went out with the token of the page load, a later one
\* with the token J1 of an identify, a call of the application was dropped
\* after a forget, and the two requests are as they were sent.
C12_Witness ==
    \E t \in DOMAIN tracks, u \in DOMAIN tracks, v \in DOMAIN tracks :
        /\ t < u
        /\ u < v
        /\ SentWithBearer(tracks[t], "J0")
        /\ SentWithBearer(tracks[u], "J1")
        /\ tracks[v].origin = ByApp
        /\ tracks[v].jwt = JsNull
        /\ tracks[v].sent = <<>>
        /\ localStorage = <<>>

\* C13: every request sent, to {base}/identify and to {base}/track, carries
\* the header x-userstack-project-key with the provider's projectKey.
C13_ProjectKeyOnEveryRequest ==
    \A r \in Requests :
        /\ r.url \in {props.customApiUrl \o "/identify", props.customApiUrl \o "/track"}
        /\ r.projectKey = props.projectKey

\* A provider configured with pk_test and its own base URL has sent an
\* identify request, the signin event after it and a pageview.
C13_Witness ==
    /\ props = [projectKey |-> "pk_test", customApiUrl |-> "https://example.test/edge"]
    /\ \E r \in Requests : r.call[1] = "identify"
    /\ \E t \in DOMAIN tracks :
          tracks[t].origin.by = "identify" /\ tracks[t].sent # <<>>
    /\ \E t \in DOMAIN tracks :
          tracks[t].origin = ByEffect /\ tracks[t].sent # <<>>

-----------------------------------------------------------------------------
(* forget and the token slot, checked under Spec.                          *)

\* C14: forget can be called in every state and has no failing outcome; a
\* forget leaves the token slot empty and changes no call and no request;
\* called while the slot is empty it leaves localStorage as it is; and
\* deleting twice gives the storage that deleting once gives.
C14_ForgetIdempotent ==
    /\ [](/\ ENABLED Forget
          /\ storage_delete(storage_delete(localStorage, JWT_STORAGE_KEY),
                            JWT_STORAGE_KEY)
                = storage_delete(localStorage, JWT_STORAGE_KEY))
    /\ [][Forget =>
            /\ JWT_STORAGE_KEY \notin DOMAIN localStorage'
            /\ JWT_STORAGE_KEY \notin DOMAIN localStorage
                  => localStorage' = localStorage
            /\ identifies' = identifies
            /\ tracks' = tracks]_vars

\* The token of the page load was in use, no identify call was made, and of
\* the forget calls made the last found the slot already empty: the slot is
\* empty.
C14_Witness ==
    /\ window
    /\ identifies = <<>>
    /\ \E t \in DOMAIN tracks : SentWithBearer(tracks[t], "J0")
    /\ hist.forgot = "quiet"
    /\ hist.forgotEmpty
    /\ localStorage = <<>>

\* C15: the step in which an identify call processes its 2xx response with a
\* JSON body resolves the call in the same step that calls the signin track,
\* whose request may still be in flight; the end of a signin track request,
\* with a response or a network failure, changes no identify call and not
\* the token slot; and a call that has processed such a response is resolved
\* in every later state.
C15_IdentifyOutcomeItsOwn ==
    /\ [][\A i \in DOMAIN identifies :
            (/\ identifies[i].pc = "await_fetch"
             /\ identifies'[i].pc # "await_fetch"
             /\ identifies'[i].response.ok
             /\ identifies'[i].response.kind = "json")
            => /\ identifies'[i].pc = "resolved"
               /\ SigninCalled(i)
               /\ NewTrack.pc = (IF NewTrack.sent # <<>> THEN "await_fetch"
                                                         ELSE "resolved")]_vars
    /\ [][\A t \in DOMAIN tracks :
            (/\ tracks[t].origin.by = "identify"
             /\ tracks[t].pc = "await_fetch"
             /\ tracks'[t].pc # "await_fetch")
            => /\ identifies' = identifies
               /\ localStorage' = localStorage]_vars
    /\ [](\A i \in DOMAIN identifies :
            (identifies[i].response.ok /\ identifies[i].response.kind = "json")
            => identifies[i].pc = "resolved")

\* An identify call has resolved with J1, the request of its signin event
\* has failed on the network, and J1 is still stored.
C15_Witness ==
    \E i \in DOMAIN identifies, t \in DOMAIN tracks :
        /\ identifies[i].pc = "resolved"
        /\ identifies[i].response.jwt = JsStr("J1")
        /\ tracks[t].origin = Signin(i)
        /\ Len(tracks[t].sent) = 1
        /\ tracks[t].pc = "rejected"
        /\ storage_get(localStorage, JWT_STORAGE_KEY) = JsStr("J1")

\* C16, as claimed, read for a browser (window is defined): once several
\* identify calls have all completed, and one of them has processed a 2xx
\* response with no forget after it, the stored token is the jwt of the 2xx
\* response that was processed last, and it is the jwt of one of the calls.
C16_Original ==
    (window /\ Len(identifies) >= 2 /\ InFlight = {} /\ hist.lastOk # JsNull)
    => /\ JWT_STORAGE_KEY \in DOMAIN localStorage
       /\ JsStr(localStorage[JWT_STORAGE_KEY]) = hist.lastOk
       /\ \E i \in DOMAIN identifies :
             /\ identifies[i].pc = "resolved"
             /\ identifies[i].response.jwt = JsStr(localStorage[JWT_STORAGE_KEY])

\* The jwt strings the 2xx responses processed so far have returned.
ReturnedJwts ==
    {identifies[i].response.jwt.s :
        i \in {n \in DOMAIN identifies :
                 /\ identifies[n].pc = "resolved"
                 /\ identifies[n].response.jwt.t = "string"}}

\* C17, as claimed: in every state the token slot is empty or holds the jwt
\* some 2xx identify response has returned (for the token found at the page
\* load, the response of an earlier page); and a step changes the slot only
\* if it is an identify call processing its 2xx response or a forget, which
\* empties it: a track call, a run of the pageview effect, a failing
\* identify and the end of a track request leave it as it is.
C17_Original ==
    /\ [](JWT_STORAGE_KEY \in DOMAIN localStorage
            => localStorage[JWT_STORAGE_KEY] \in {"J0"} \cup ReturnedJwts)
    /\ [][localStorage' # localStorage =>
            \/ \E i \in DOMAIN identifies :
                  /\ identifies[i].pc = "await_fetch"
                  /\ identifies'[i].pc = "resolved"
                  /\ identifies'[i].response.ok
            \/ /\ JWT_STORAGE_KEY \notin DOMAIN localStorage'
               /\ identifies' = identifies
               /\ tracks' = tracks
               /\ nav' = nav]_vars

====
